---- MODULE Spec2Model ----
(***************************************************************************)
(* Model of the parse-invoice edge function                                *)
(* (src/supabase/functions/parse-invoice/index.ts): one request handled by *)
(* the Deno.serve callback, from the CORS preflight test to the response.  *)
(*                                                                         *)
(* JavaScript values are tagged records, strings are sequences of          *)
(* one-character strings, and the text of a completion is a sequence of    *)
(* lexical tokens: "[", "]", ",", a JSON value that is not an array, or a   *)
(* word of prose.  String values inside a completion hold no brackets.     *)
(***************************************************************************)
EXTENDS Integers, Sequences, FiniteSets, TLC

(***************************************************************************)
(* Bounds of the model.                                                    *)
(***************************************************************************)
MaxTokens == 4
MaxPages == 3

(***************************************************************************)
(* JavaScript values.                                                      *)
(***************************************************************************)
Undef == [t |-> "undef"]
Null == [t |-> "null"]
NaN == [t |-> "nan"]
Str(s) == [t |-> "str", s |-> s]
Num(n) == [t |-> "num", n |-> n]
Bool(b) == [t |-> "bool", b |-> b]
Obj(f) == [t |-> "obj", f |-> f]
Arr(e) == [t |-> "arr", e |-> e]
Text(toks) == [t |-> "text", toks |-> toks]

EmptyStr == Str(<< >>)

\* ToBoolean: what `||`, `!` and Boolean() test.
Truthy(v) ==
  CASE v.t = "undef" -> FALSE
    [] v.t = "null" -> FALSE
    [] v.t = "nan" -> FALSE
    [] v.t = "str" -> Len(v.s) > 0
    [] v.t = "text" -> Len(v.toks) > 0
    [] v.t = "num" -> v.n # 0
    [] v.t = "bool" -> v.b
    [] OTHER -> TRUE

\* a || b
Or(a, b) == IF Truthy(a) THEN a ELSE b

\* item.key: a TypeError on null and undefined, undefined on a value that
\* has no such property.
CanRead(item) == item.t \notin {"null", "undef"}

Get(item, key) == IF item.t = "obj" THEN item.f[key] ELSE Undef

(***************************************************************************)
(* Number.parseInt(value, 10).                                             *)
(***************************************************************************)
DigitChars == <<"0", "1", "2", "3", "4", "5", "6", "7", "8", "9">>

IsDigit(c) == \E d \in 1..10 : DigitChars[d] = c

DigitVal(c) == (CHOOSE d \in 1..10 : DigitChars[d] = c) - 1

WhiteSpace == {" ", "\t", "\n", "\r"}

RECURSIVE NatToChars(_)
NatToChars(n) ==
  IF n < 10 THEN <<DigitChars[n + 1]>>
  ELSE NatToChars(n \div 10) \o <<DigitChars[(n % 10) + 1]>>

\* ToString of the values a field of a parsed item can hold.
ToStringChars(v) ==
  CASE v.t = "str" -> v.s
    [] v.t = "num" -> IF v.n < 0 THEN <<"-">> \o NatToChars(-v.n) ELSE NatToChars(v.n)
    [] v.t = "bool" -> IF v.b THEN <<"t", "r", "u", "e">> ELSE <<"f", "a", "l", "s", "e">>
    [] v.t = "null" -> <<"n", "u", "l", "l">>
    [] v.t = "undef" -> <<"u", "n", "d", "e", "f", "i", "n", "e", "d">>
    [] OTHER -> <<"[", "o", "b", "j", "e", "c", "t", " ", "O", "b", "j", "e", "c", "t", "]">>

RECURSIVE SkipWhiteSpace(_)
SkipWhiteSpace(s) ==
  IF Len(s) > 0 /\ Head(s) \in WhiteSpace THEN SkipWhiteSpace(Tail(s)) ELSE s

RECURSIVE LeadingDigits(_)
LeadingDigits(s) ==
  IF Len(s) > 0 /\ IsDigit(Head(s)) THEN <<Head(s)>> \o LeadingDigits(Tail(s)) ELSE << >>

RECURSIVE DigitsValue(_, _)
DigitsValue(ds, acc) ==
  IF Len(ds) = 0 THEN acc ELSE DigitsValue(Tail(ds), acc * 10 + DigitVal(Head(ds)))

ParseInt(v) ==
  LET s == SkipWhiteSpace(ToStringChars(v))
      neg == Len(s) > 0 /\ Head(s) = "-"
      signed == Len(s) > 0 /\ Head(s) \in {"-", "+"}
      body == IF signed THEN Tail(s) ELSE s
      ds == LeadingDigits(body)
  IN IF Len(ds) = 0 THEN NaN
     ELSE Num(IF neg THEN -DigitsValue(ds, 0) ELSE DigitsValue(ds, 0))

(***************************************************************************)
(* The text of a completion, as tokens.                                    *)
(***************************************************************************)
LB == [k |-> "lb"]
RB == [k |-> "rb"]
COMMA == [k |-> "comma"]
PROSE == [k |-> "prose"]
Val(v) == [k |-> "val", v |-> v]

EmptyArrayText == <<LB, RB>>

\* The match of /\[[\s\S]*?\]/, whose star is lazy: up to the first "]".
RegexMatchLazy(toks) ==
  LET opens == {a \in 1..Len(toks) : toks[a] = LB}
      closes == {b \in 1..Len(toks) : toks[b] = RB}
  IN IF \E a \in opens : \E b \in closes : a < b
     THEN LET first == CHOOSE a \in opens : \A o \in opens : a <= o
              close == CHOOSE b \in closes : b > first /\ \A c \in closes : c > first => b <= c
          IN SubSeq(toks, first, close)
     ELSE << >>

\* rawContent.match(/\[[\s\S]*\]/): the leftmost "[" that has a "]" after
\* it, and, the star being greedy, everything up to the last "]" of the
\* text.  << >> stands for null (no match).
RegexMatch(toks) ==
  LET opens == {i \in 1..Len(toks) : toks[i] = LB}
      closes == {j \in 1..Len(toks) : toks[j] = RB}
  IN IF \E i \in opens : \E j \in closes : i < j
     THEN LET first == CHOOSE i \in opens : \A o \in opens : i <= o
              last == CHOOSE j \in closes : \A c \in closes : c <= j
          IN SubSeq(toks, first, last)
     ELSE << >>

\* jsonMatch ? jsonMatch[0] : "[]"
JsonStringOf(toks) ==
  LET jsonMatch == RegexMatch(toks)
  IN IF Len(jsonMatch) > 0 THEN jsonMatch ELSE EmptyArrayText

(***************************************************************************)
(* JSON.parse on a token sequence: a value is a non-array value token or   *)
(* "[" value ("," value)* "]" or "[" "]"; the whole text must be one value. *)
(* A result is [ok, v, next].                                              *)
(***************************************************************************)
ParseFail == [ok |-> FALSE, v |-> Undef, next |-> 0]

RECURSIVE ParseValue(_, _)
RECURSIVE ParseElements(_, _, _)

ParseValue(toks, i) ==
  IF i > Len(toks) THEN ParseFail
  ELSE IF toks[i].k = "val" THEN [ok |-> TRUE, v |-> toks[i].v, next |-> i + 1]
  ELSE IF toks[i].k = "lb"
       THEN IF i + 1 <= Len(toks) /\ toks[i + 1] = RB
            THEN [ok |-> TRUE, v |-> Arr(<< >>), next |-> i + 2]
            ELSE ParseElements(toks, i + 1, << >>)
  ELSE ParseFail

\* The elements of an array from position i on, acc being those read so far.
ParseElements(toks, i, acc) ==
  LET e == ParseValue(toks, i)
  IN IF ~e.ok \/ e.next > Len(toks) THEN ParseFail
     ELSE IF toks[e.next] = RB
          THEN [ok |-> TRUE, v |-> Arr(Append(acc, e.v)), next |-> e.next + 1]
     ELSE IF toks[e.next] = COMMA
          THEN ParseElements(toks, e.next + 1, Append(acc, e.v))
     ELSE ParseFail

JsonParse(toks) ==
  LET r == ParseValue(toks, 1)
  IN IF r.ok /\ r.next = Len(toks) + 1 THEN [ok |-> TRUE, v |-> r.v]
     ELSE [ok |-> FALSE, v |-> Undef]

(***************************************************************************)
(* The mapping of one parsed element to an OrderLineItem, and the fallback *)
(* record.  id is the index part of `${Date.now()}-${index}`;               *)
(* source_invoice_id, created_at and source_file_url are the same for      *)
(* every record of a request and are left out.                             *)
(***************************************************************************)
FailNote == Str(<<"A", "I", " ", "f", "a", "i", "l", "e", "d">>)

\* NeedsReview taking the model's word for it.
NeedsReviewAsReported(item) == Truthy(Get(item, "needs_review"))

NeedsReview(item) ==
  \/ Truthy(Get(item, "needs_review"))
  \/ ~Truthy(Get(item, "vendor_name"))
  \/ ~Truthy(Get(item, "customer_name"))
  \/ ~Truthy(Get(item, "style_number"))

Quantity(item) == Or(ParseInt(Get(item, "quantity")), Num(0))

EtaDate(item) == Or(Get(item, "eta_date"), Null)

MapItem(item, index, vn, cn) ==
  [id |-> index,
   vendor_name |-> Or(Or(Get(item, "vendor_name"), vn), EmptyStr),
   customer_name |-> Or(Or(Get(item, "customer_name"), cn), EmptyStr),
   style_number |-> Or(Get(item, "style_number"), EmptyStr),
   quantity |-> Quantity(item),
   eta_date |-> EtaDate(item),
   notes |-> Or(Get(item, "notes"), EmptyStr),
   needs_review |-> NeedsReview(item)]

FallbackRecord(vn, cn) ==
  [id |-> 0,
   vendor_name |-> Or(vn, EmptyStr),
   customer_name |-> Or(cn, EmptyStr),
   style_number |-> EmptyStr,
   quantity |-> Num(0),
   eta_date |-> Null,
   notes |-> FailNote,
   needs_review |-> TRUE]

\* parsedData.map(...): the callback throws on the first element whose
\* property cannot be read, and the records built so far are dropped.
MapThrows(parsed) == \E k \in 1..Len(parsed.e) : ~CanRead(parsed.e[k])

MapAll(parsed, vn, cn) ==
  [k \in 1..Len(parsed.e) |-> MapItem(parsed.e[k], k - 1, vn, cn)]

(***************************************************************************)
(* The text of a PDF: fullText is a sequence of pieces, one per page read, *)
(* each the number of characters of the page's marker                      *)
(* "\n\n--- Page i ---\n" (m) and of the page's text (t) it holds.          *)
(***************************************************************************)
MAX_TEXT_CHARS == 15000

DigitCount(i) == IF i < 10 THEN 1 ELSE IF i < 100 THEN 2 ELSE 3

MarkerLen(i) == 16 + DigitCount(i)

RECURSIVE TextLen(_)
TextLen(ft) == IF Len(ft) = 0 THEN 0 ELSE Head(ft).m + Head(ft).t + TextLen(Tail(ft))

\* fullText += `\n\n--- Page ${i} ---\n${pageText}`
AppendPage(ft, i, pageLen) == Append(ft, [page |-> i, m |-> MarkerLen(i), t |-> pageLen])

Min(a, b) == IF a < b THEN a ELSE b

\* fullText.slice(0, n)
RECURSIVE Slice(_, _)
Slice(ft, n) ==
  IF Len(ft) = 0 \/ n <= 0 THEN << >>
  ELSE LET h == Head(ft)
           m == Min(h.m, n)
           t == Min(h.t, n - m)
       IN <<[page |-> h.page, m |-> m, t |-> t]>> \o Slice(Tail(ft), n - m - t)

\* The text left as the loop built it.
TruncateNever(ft) == ft

\* if (fullText.length > MAX_TEXT_CHARS) fullText = fullText.slice(0, MAX_TEXT_CHARS)
Truncate(ft) == IF TextLen(ft) > MAX_TEXT_CHARS THEN Slice(ft, MAX_TEXT_CHARS) ELSE ft

(***************************************************************************)
(* Inputs: the request, the environment, and what the collaborators        *)
(* (storage, pdf.js, the inference endpoint) answer.                       *)
(***************************************************************************)
HintVendor == Str(<<"H", "V">>)
HintCustomer == Str(<<"H", "C">>)

\* formData.get(...) is null for a field the form does not have.
Requests ==
  [method : {"OPTIONS", "POST"},
   file : {"none", "pdf", "image"},
   vendorName : {Null, HintVendor},
   customerName : {Null, HintCustomer}]

\* Lengths of a page's text: empty, ordinary, one that fills the budget
\* exactly with its marker, and one that exceeds it alone.
PageLens == {0, 7000, 7960, 14983, 20000}

ErrorBodies == {"rate limit", "invalid key"}

IsoDate == Str(<<"2", "0", "2", "4", "-", "0", "5", "-", "0", "1">>)

NameVals(c) == {Undef, EmptyStr, Str(<<c>>)}

ReviewVals == {Undef, Bool(FALSE), Bool(TRUE)}

QuantityVals ==
  {Undef, Num(24), Num(-5),
   Str(<<"1", "2", " ", "p", "c", "s">>), EmptyStr, Str(<<"a", "b", "c">>),
   Str(<<"-", "5">>)}

EtaVals == {Null, IsoDate, Str(<<"s", "o", "o", "n">>), Num(20240501)}

NoteVals == {Undef, Str(<<"n">>)}

ItemFields ==
  [vendor_name : NameVals("V"),
   customer_name : NameVals("C"),
   style_number : NameVals("S"),
   quantity : QuantityVals,
   eta_date : EtaVals,
   notes : NoteVals,
   needs_review : ReviewVals]

Items == {Obj(f) : f \in ItemFields}

GoodItem ==
  Obj([vendor_name |-> Str(<<"V">>), customer_name |-> Str(<<"C">>),
       style_number |-> Str(<<"S">>), quantity |-> Num(24), eta_date |-> IsoDate,
       notes |-> Undef, needs_review |-> Bool(FALSE)])

\* Elements a model may put in the array instead of an object.
OddElements == {Null, Num(7), Str(<<"x">>), Bool(TRUE)}

Alphabet == {LB, RB, COMMA, PROSE, Val(GoodItem), Val(Null)}

TokenTexts == UNION {[1..n -> Alphabet] : n \in 0..MaxTokens}

SingleItemTexts == {<<LB, Val(it), RB>> : it \in Items \cup OddElements}

PairTexts ==
  {<<LB, Val(a), COMMA, Val(b), RB>> : a, b \in {GoodItem} \cup OddElements}

Completions == TokenTexts \cup SingleItemTexts \cup PairTexts

\* The parsed body of a successful answer: null, an object without choices,
\* with no choice, with a choice without message, or with a message whose
\* content is missing, null, a number or a text.
Body(shape, content) == [shape |-> shape, content |-> content]

OpenAiBodies ==
  {Body(sh, Undef) : sh \in {"null", "nochoices", "emptychoices", "nomessage"}}
  \cup {Body("content", c) : c \in {Undef, Null, Num(5)}}
  \cup {Body("content", Text(toks)) : toks \in Completions}

(***************************************************************************)
(* The try block of the handler, lines 207-251, as a function of the       *)
(* parsed body and the hints: what each local holds (Undef, << >> when the *)
(* block threw before assigning it), whether it threw, and extractedData.  *)
(***************************************************************************)
\* openaiData.choices[0]?.message?.content || "[]"; reading .choices of
\* null and [0] of undefined throw.
RawContentThrows(od) == od.shape \in {"null", "nochoices"}

RawContentOf(od) ==
  IF od.shape = "content" THEN Or(od.content, Text(EmptyArrayText))
  ELSE Text(EmptyArrayText)

\* A catch block that gives up the record.
FallbackDataEmpty(vn, cn) == << >>

\* The catch block.
FallbackData(vn, cn) == <<FallbackRecord(vn, cn)>>

Thrown(raw, js, vn, cn) ==
  [rawContent |-> raw, jsonString |-> js, parsedData |-> Undef, threw |-> TRUE,
   data |-> FallbackData(vn, cn)]

NormalizeTry(od, vn, cn) ==
  IF RawContentThrows(od) THEN Thrown(Undef, << >>, vn, cn)
  ELSE LET raw == RawContentOf(od)
       IN \* rawContent.match is not a function unless rawContent is a string
          IF raw.t # "text" THEN Thrown(raw, << >>, vn, cn)
          ELSE LET js == JsonStringOf(raw.toks)
                   parsed == JsonParse(js)
               IN IF ~parsed.ok THEN Thrown(raw, js, vn, cn)
                  ELSE IF MapThrows(parsed.v)
                       THEN [Thrown(raw, js, vn, cn) EXCEPT !.parsedData = parsed.v]
                  ELSE [rawContent |-> raw, jsonString |-> js, parsedData |-> parsed.v,
                        threw |-> FALSE, data |-> MapAll(parsed.v, vn, cn)]

(***************************************************************************)
(* The state of one request.                                               *)
(***************************************************************************)
VARIABLES
  req,            \* the inbound request
  apiKey,         \* whether OPENAI_API_KEY is set
  pc,             \* where the handler is
  vendorName,     \* the hints read from the form
  customerName,
  calls,          \* the steps taken so far, in order
  uploadOk,       \* "none" before the upload's answer, "yes", "no" (uploadError)
  numPages,       \* pdf.numPages
  i,              \* the page loop's counter
  fullText,
  content,        \* the user message's content
  openaiOk,       \* openaiResponse.ok: "none" before the answer, "yes", "no"
  errorText,      \* the body of an answer that is not ok
  openaiData,
  rawContent,
  jsonString,
  parsedData,
  extractedData,
  response

vars ==
  <<req, apiKey, pc, vendorName, customerName, calls, uploadOk, numPages, i, fullText,
    content, openaiOk, errorText, openaiData, rawContent, jsonString, parsedData,
    extractedData, response>>

NoResponse == [status |-> 0, kind |-> "none", error |-> "", details |-> "", data |-> << >>]

ErrorResponse(status, error, details) ==
  [status |-> status, kind |-> "error", error |-> error, details |-> details, data |-> << >>]

\* The outer catch.
InternalError == ErrorResponse(500, "Internal server error", "message")

NoContent == [kind |-> "none", text |-> << >>]

Init ==
  /\ req \in Requests
  /\ apiKey \in BOOLEAN
  /\ pc = "start"
  /\ vendorName = Undef
  /\ customerName = Undef
  /\ calls = << >>
  /\ uploadOk = "none"
  /\ numPages = 0
  /\ i = 0
  /\ fullText = << >>
  /\ content = NoContent
  /\ openaiOk = "none"
  /\ errorText = ""
  /\ openaiData = Body("none", Undef)
  /\ rawContent = Undef
  /\ jsonString = << >>
  /\ parsedData = Undef
  /\ extractedData = << >>
  /\ response = NoResponse

\* return new Response(...)
Return(r) == /\ response' = r
             /\ pc' = "done"

envVars == <<req, apiKey>>
formVars == <<vendorName, customerName>>
pdfVars == <<numPages, i, fullText, content>>
fetchVars == <<openaiOk, errorText>>
normVars == <<openaiData, rawContent, jsonString, parsedData, extractedData>>

\* The CORS preflight.
Preflight ==
  /\ pc = "start"
  /\ req.method = "OPTIONS"
  /\ Return([NoResponse EXCEPT !.status = 200, !.kind = "preflight"])
  /\ UNCHANGED <<envVars, formVars, calls, uploadOk, pdfVars, fetchVars, normVars>>

\* The check of OPENAI_API_KEY.
CheckConfig ==
  /\ pc = "start"
  /\ req.method # "OPTIONS"
  /\ IF ~apiKey
     THEN Return(ErrorResponse(500, "OpenAI API key not configured", ""))
     ELSE /\ pc' = "form"
          /\ UNCHANGED response
  /\ UNCHANGED <<envVars, formVars, calls, uploadOk, pdfVars, fetchVars, normVars>>

\* ReadForm without the test of the file.
ReadFormNoFileCheck ==
  /\ pc = "form"
  /\ vendorName' = Or(req.vendorName, EmptyStr)
  /\ customerName' = Or(req.customerName, EmptyStr)
  /\ pc' = "upload"
  /\ UNCHANGED <<envVars, calls, uploadOk, pdfVars, fetchVars, normVars, response>>

\* await req.formData(), the hints and the check of the file.
ReadForm ==
  /\ pc = "form"
  /\ vendorName' = Or(req.vendorName, EmptyStr)
  /\ customerName' = Or(req.customerName, EmptyStr)
  /\ IF req.file = "none"
     THEN Return(ErrorResponse(400, "No file provided", ""))
     ELSE /\ pc' = "upload"
          /\ UNCHANGED response
  /\ UNCHANGED <<envVars, calls, uploadOk, pdfVars, fetchVars, normVars>>

\* Upload without the return on uploadError.
UploadIgnoresError ==
  /\ pc = "upload"
  /\ calls' = Append(calls, "upload")
  /\ \E uploadError \in BOOLEAN : uploadOk' = IF uploadError THEN "no" ELSE "yes"
  /\ pc' = "extract"
  /\ UNCHANGED <<envVars, formVars, pdfVars, fetchVars, normVars, response>>

\* await storage.upload(...): an uploadError ends the request.
Upload ==
  /\ pc = "upload"
  /\ calls' = Append(calls, "upload")
  /\ \E uploadError \in BOOLEAN :
       IF uploadError
       THEN /\ uploadOk' = "no"
            /\ Return(ErrorResponse(500, "Failed to upload file", ""))
       ELSE /\ uploadOk' = "yes"
            /\ pc' = "extract"
            /\ UNCHANGED response
  /\ UNCHANGED <<envVars, formVars, pdfVars, fetchVars, normVars>>

\* The PDF path: pdf.js loads the document, or rejects a corrupt one.
LoadPdf ==
  /\ pc = "extract"
  /\ req.file = "pdf"
  /\ calls' = Append(calls, "extract")
  /\ \/ /\ \E n \in 1..MaxPages : numPages' = n
        /\ i' = 1
        /\ fullText' = << >>
        /\ pc' = "pages"
        /\ UNCHANGED <<content, response>>
     \/ /\ Return(InternalError)
        /\ UNCHANGED pdfVars
  /\ UNCHANGED <<envVars, formVars, uploadOk, fetchVars, normVars>>

\* One turn of the page loop, with its early stop.
ReadPage ==
  /\ pc = "pages"
  /\ i <= numPages
  /\ \E pageLen \in PageLens :
       /\ fullText' = AppendPage(fullText, i, pageLen)
       /\ IF TextLen(fullText') > MAX_TEXT_CHARS
          THEN /\ pc' = "truncate"
               /\ UNCHANGED i
          ELSE /\ i' = i + 1
               /\ UNCHANGED pc
  /\ UNCHANGED <<envVars, formVars, calls, uploadOk, numPages, content, fetchVars,
                 normVars, response>>

\* The loop's exit after the last page.
EndPages ==
  /\ pc = "pages"
  /\ i > numPages
  /\ pc' = "truncate"
  /\ UNCHANGED <<envVars, formVars, calls, uploadOk, pdfVars, fetchVars, normVars, response>>

\* The truncation and the text content; the block's locals end here.
BuildTextContent ==
  /\ pc = "truncate"
  /\ content' = [kind |-> "text", text |-> Truncate(fullText)]
  /\ fullText' = << >>
  /\ i' = 0
  /\ numPages' = 0
  /\ pc' = "fetch"
  /\ UNCHANGED <<envVars, formVars, calls, uploadOk, fetchVars, normVars, response>>

\* The image path.
BuildImageContent ==
  /\ pc = "extract"
  /\ req.file = "image"
  /\ calls' = Append(calls, "extract")
  /\ content' = [kind |-> "image", text |-> << >>]
  /\ pc' = "fetch"
  /\ UNCHANGED <<envVars, formVars, uploadOk, numPages, i, fullText, fetchVars, normVars,
                 response>>

\* await fetch(...): content is serialised into the request's body and not
\* read again.  The call rejects, or answers with a status.
Fetch ==
  /\ pc = "fetch"
  /\ calls' = Append(calls, "inference")
  /\ content' = NoContent
  /\ \/ /\ Return(InternalError)
        /\ UNCHANGED fetchVars
     \/ /\ openaiOk' = "no"
        /\ \E body \in ErrorBodies :
             /\ errorText' = body
             /\ Return(ErrorResponse(500, "Failed to process file with AI", body))
     \/ /\ openaiOk' = "yes"
        /\ pc' = "json"
        /\ UNCHANGED <<errorText, response>>
  /\ UNCHANGED <<envVars, formVars, uploadOk, numPages, i, fullText, normVars>>

\* await openaiResponse.json(): rejects on a body that is not JSON.
ReadJson ==
  /\ pc = "json"
  /\ \/ /\ Return(InternalError)
        /\ UNCHANGED openaiData
     \/ /\ \E od \in OpenAiBodies : openaiData' = od
        /\ pc' = "normalize"
        /\ UNCHANGED response
  /\ UNCHANGED <<envVars, formVars, calls, uploadOk, pdfVars, fetchVars, rawContent,
                 jsonString, parsedData, extractedData>>

\* The try block, its catch, and the 200 response.
Normalize ==
  /\ pc = "normalize"
  /\ calls' = Append(calls, "normalize")
  /\ LET r == NormalizeTry(openaiData, vendorName, customerName)
     IN /\ rawContent' = r.rawContent
        /\ jsonString' = r.jsonString
        /\ parsedData' = r.parsedData
        /\ extractedData' = r.data
        /\ Return([status |-> 200, kind |-> "success", error |-> "", details |-> "",
                   data |-> r.data])
  /\ UNCHANGED <<envVars, formVars, uploadOk, pdfVars, fetchVars, openaiData>>

Next ==
  \/ Preflight
  \/ CheckConfig
  \/ ReadForm
  \/ Upload
  \/ LoadPdf
  \/ ReadPage
  \/ EndPages
  \/ BuildTextContent
  \/ BuildImageContent
  \/ Fetch
  \/ ReadJson
  \/ Normalize

Spec == Init /\ [][Next]_vars

(***************************************************************************)
(* Properties.                                                             *)
(***************************************************************************)
Succeeded == pc = "done" /\ response.status = 200 /\ response.kind = "success"

\* The completion text the endpoint returned, when it returned one.
HasCompletion == openaiData.shape = "content" /\ openaiData.content.t = "text"

Completion == openaiData.content.toks

IsFallback(r) ==
  /\ r.needs_review
  /\ r.quantity = Num(0)
  /\ r.eta_date = Null
  /\ r.notes = FailNote

\* C1: in a 200 response, a record whose vendor_name, customer_name or
\* style_number is the empty string has needs_review true, whatever the
\* item, the hints and the needs_review the model reported.
C1_EmptyNameNeedsReview ==
  Succeeded =>
    \A k \in 1..Len(response.data) :
      LET r == response.data[k]
      IN (r.vendor_name = EmptyStr \/ r.customer_name = EmptyStr \/ r.style_number = EmptyStr)
           => r.needs_review

\* A mapped record with an empty vendor_name whose item reported
\* needs_review: false.
C1_Witness ==
  /\ Succeeded
  /\ parsedData.t = "arr"
  /\ Len(response.data) = Len(parsedData.e)
  /\ \E k \in 1..Len(response.data) :
       /\ Get(parsedData.e[k], "needs_review") = Bool(FALSE)
       /\ Truthy(Get(parsedData.e[k], "style_number"))
       /\ response.data[k].vendor_name = EmptyStr
       /\ response.data[k].needs_review

\* No part of the text is a JSON array.
NoParseableArray(toks) ==
  ~\E a \in 1..Len(toks) : \E b \in a..Len(toks) :
      toks[a] = LB /\ JsonParse(SubSeq(toks, a, b)).ok

HasBracketPair(toks) ==
  \E a \in 1..Len(toks) : \E b \in a..Len(toks) : toks[a] = LB /\ toks[b] = RB

OneFallbackRecord == Len(response.data) = 1 /\ IsFallback(response.data[1])

\* C2 as claimed: a completion text (here one that is not empty) that holds
\* no parseable JSON array, prose without brackets included, gives exactly
\* one fallback record, never an empty list.
C2_Original ==
  (Succeeded /\ HasCompletion /\ Len(Completion) > 0 /\ NoParseableArray(Completion))
    => OneFallbackRecord

\* C2, amended: a completion text that holds no parseable JSON array gives
\* exactly one fallback record when some "[" of it has a "]" after it, and
\* the empty list when none has (prose without brackets, an empty text, an
\* array cut before its "]").
C2_Amended ==
  (Succeeded /\ HasCompletion /\ NoParseableArray(Completion)) =>
    IF HasBracketPair(Completion) THEN OneFallbackRecord ELSE response.data = << >>

\* Malformed array text, answered with the fallback record.
C2_Witness ==
  /\ Succeeded
  /\ HasCompletion
  /\ NoParseableArray(Completion)
  /\ HasBracketPair(Completion)
  /\ OneFallbackRecord

\* C3 as claimed: once the endpoint has answered with a success status, the
\* response is 200 with success and a data list.
C3_Claim == (pc = "done" /\ openaiOk = "yes") => Succeeded

\* C4 as claimed: the quantity of every mapped record is a non-negative
\* integer, the leading number of a value such as "12 pcs", and 0 for an
\* empty or non-numeric value.
C4_Claim ==
  (Succeeded /\ parsedData.t = "arr" /\ Len(response.data) = Len(parsedData.e)) =>
    \A k \in 1..Len(response.data) :
      LET q == response.data[k].quantity
          raw == Get(parsedData.e[k], "quantity")
      IN /\ q.t = "num"
         /\ q.n >= 0
         /\ raw = Str(<<"1", "2", " ", "p", "c", "s">>) => q.n = 12
         /\ raw \in {Undef, EmptyStr, Str(<<"a", "b", "c">>)} => q.n = 0

\* The pages whose marker "--- Page N ---" a text holds whole: all of the
\* marker's characters but its last, the line break.
RECURSIVE MarkerPages(_)
MarkerPages(ft) ==
  IF Len(ft) = 0 THEN << >>
  ELSE (IF Head(ft).m >= MarkerLen(Head(ft).page) - 1 THEN <<Head(ft).page>> ELSE << >>)
         \o MarkerPages(Tail(ft))

CountsFromOne(pages) == \A k \in 1..Len(pages) : pages[k] = k

\* C5: the text put in the prompt has at most 15,000 characters and its
\* page markers count up from 1; the loop reads a page only while the text
\* read before it does not exceed 15,000 characters, so that no page after
\* the one that exceeded them is in the text.
C5_TextBudget ==
  /\ content.kind = "text" =>
       /\ TextLen(content.text) <= MAX_TEXT_CHARS
       /\ CountsFromOne(MarkerPages(content.text))
  /\ pc = "pages" => TextLen(fullText) <= MAX_TEXT_CHARS /\ Len(fullText) = i - 1
  /\ pc = "truncate" =>
       /\ Len(fullText) <= numPages
       /\ \A k \in 1..Len(fullText) :
            /\ fullText[k].page = k
            /\ TextLen(SubSeq(fullText, 1, k - 1)) <= MAX_TEXT_CHARS
       /\ Len(fullText) < numPages => TextLen(fullText) > MAX_TEXT_CHARS

\* A text of several pages cut to the budget, the cut falling inside the
\* last page's marker.
C5_Witness ==
  /\ content.kind = "text"
  /\ TextLen(content.text) = MAX_TEXT_CHARS
  /\ Len(content.text) = 3
  /\ Len(MarkerPages(content.text)) = 2

NoStorageNoInference == \A k \in 1..Len(calls) : calls[k] \notin {"upload", "inference"}

NoFileRequest == req.method # "OPTIONS" /\ req.file = "none"

\* C6 as claimed: a request without a file is answered 400 with an error
\* body, with no upload and no inference call, whether or not the API key
\* is configured.
C6_Original ==
  NoFileRequest =>
    /\ NoStorageNoInference
    /\ pc = "done" => response.status = 400 /\ response.kind = "error"

\* C6, amended: a request without a file never reaches the upload or the
\* inference call, and is answered with an error body: 400 when the API key
\* is configured, 500 when it is not.
C6_Amended ==
  NoFileRequest =>
    /\ NoStorageNoInference
    /\ pc = "done" =>
         /\ response.kind = "error"
         /\ response.status = IF apiKey THEN 400 ELSE 500

\* A request without a file, answered 400.
C6_Witness ==
  /\ NoFileRequest
  /\ apiKey
  /\ pc = "done"
  /\ response.status = 400
  /\ calls = << >>

IsDigitChar(c) == c \in {"0", "1", "2", "3", "4", "5", "6", "7", "8", "9"}

\* A string of the form YYYY-MM-DD.
IsIsoDateString(v) ==
  /\ v.t = "str"
  /\ Len(v.s) = 10
  /\ \A k \in {1, 2, 3, 4, 6, 7, 9, 10} : IsDigitChar(v.s[k])
  /\ v.s[5] = "-"
  /\ v.s[8] = "-"

\* C7 as claimed: the eta_date of every record is a YYYY-MM-DD string or
\* null.
C7_Claim ==
  Succeeded =>
    \A k \in 1..Len(response.data) :
      response.data[k].eta_date = Null \/ IsIsoDateString(response.data[k].eta_date)

\* The record of an element alone: what the mapping gives for an element
\* whose properties can be read, and the defaults for null.
DefaultedRecord(r, index) ==
  /\ r.id = index
  /\ r.style_number = EmptyStr
  /\ r.quantity = Num(0)
  /\ r.eta_date = Null
  /\ r.notes = EmptyStr
  /\ r.needs_review

\* C8 as claimed: a completion that parses to an array of n elements gives
\* n records, the k-th made from the k-th element alone, a malformed element
\* giving a defaulted record in its place.
C8_Claim ==
  (Succeeded /\ parsedData.t = "arr") =>
    /\ Len(response.data) = Len(parsedData.e)
    /\ \A k \in 1..Len(parsedData.e) :
         IF CanRead(parsedData.e[k])
         THEN response.data[k] = MapItem(parsedData.e[k], k - 1, vendorName, customerName)
         ELSE DefaultedRecord(response.data[k], k - 1)

\* The number of "[" less the number of "]" in toks[a..b].
Depth(toks, a, b) ==
  Cardinality({k \in a..b : toks[k] = LB}) - Cardinality({k \in a..b : toks[k] = RB})

\* toks[a..b] is a balanced top-level array.
BalancedAt(toks, a, b) ==
  /\ a < b
  /\ toks[a] = LB
  /\ toks[b] = RB
  /\ Depth(toks, a, b) = 0
  /\ \A c \in a..(b - 1) : Depth(toks, a, c) > 0

\* The first balanced top-level "[" ... "]" of the text, "[]" without one.
FirstBalancedOrDefault(toks) ==
  LET spans == {ab \in (1..Len(toks)) \X (1..Len(toks)) : BalancedAt(toks, ab[1], ab[2])}
  IN IF spans = {} THEN EmptyArrayText
     ELSE LET ab == CHOOSE x \in spans : \A y \in spans : x[1] <= y[1]
          IN SubSeq(toks, ab[1], ab[2])

\* The first "[" of the text is closed, or the text has no "[".
FirstBracketClosed(toks) ==
  \A a \in 1..Len(toks) :
    (toks[a] = LB /\ \A k \in 1..(a - 1) : toks[k] # LB)
      => \E b \in a..Len(toks) : BalancedAt(toks, a, b)

\* C9 as claimed, for a text whose first "[" is closed (so that which
\* substring is the first balanced one is beyond doubt): what is parsed is
\* the first balanced top-level "[" ... "]" of the text, and "[]" when the
\* text has none.
C9_Original ==
  (Succeeded /\ rawContent.t = "text" /\ FirstBracketClosed(rawContent.toks))
    => jsonString = FirstBalancedOrDefault(rawContent.toks)

\* C9, amended: what is parsed runs from the first "[" of the text to its
\* last "]", and is "[]" when no "[" of the text has a "]" after it.
C9_Amended ==
  (Succeeded /\ rawContent.t = "text") =>
    LET toks == rawContent.toks
    IN IF HasBracketPair(toks)
       THEN \E a \in 1..Len(toks) : \E b \in a..Len(toks) :
              /\ jsonString = SubSeq(toks, a, b)
              /\ toks[a] = LB
              /\ toks[b] = RB
              /\ \A k \in 1..(a - 1) : toks[k] # LB
              /\ \A k \in (b + 1)..Len(toks) : toks[k] # RB
       ELSE jsonString = EmptyArrayText

\* A text whose first balanced array is followed by another "]": more than
\* that array is parsed.
C9_Witness ==
  /\ Succeeded
  /\ rawContent.t = "text"
  /\ FirstBracketClosed(rawContent.toks)
  /\ Len(FirstBalancedOrDefault(rawContent.toks)) > 2
  /\ jsonString # FirstBalancedOrDefault(rawContent.toks)

Steps == <<"upload", "extract", "inference", "normalize">>

\* C10: the steps are taken in the order upload, extraction, inference,
\* normalization, each at most once; a failed upload ends the request with
\* 500 before any other step, any later step follows a successful upload,
\* and an inference answer that is not ok ends the request with 500 and the
\* upstream body in details, without normalization.
C10_StepOrder ==
  /\ Len(calls) <= Len(Steps)
  /\ calls = SubSeq(Steps, 1, Len(calls))
  /\ Len(calls) >= 2 => uploadOk = "yes"
  /\ uploadOk = "no" =>
       /\ pc = "done"
       /\ calls = <<"upload">>
       /\ response.status = 500
       /\ response.kind = "error"
  /\ openaiOk = "no" =>
       /\ pc = "done"
       /\ calls = <<"upload", "extract", "inference">>
       /\ response.status = 500
       /\ response.kind = "error"
       /\ response.details = errorText
       /\ errorText \in ErrorBodies
  /\ Len(calls) = 4 => openaiOk = "yes"

\* A request that went through all four steps.
C10_Witness == pc = "done" /\ calls = Steps /\ response.status = 200

====
